---- MODULE Spec2Model ----
(***************************************************************************)
(* react-voice-action-router: the command registry, the two-phase-plus-    *)
(* fallback router, the pause gate and the dictation controller of         *)
(* VoiceControlProvider, with the local keyword matcher findBestMatch.     *)
(*                                                                         *)
(* Strings are sequences of one-character strings, so that trim,           *)
(* toLowerCase, includes and split are computed as the code computes them. *)
(***************************************************************************)
EXTENDS Integers, Sequences, FiniteSets, TLC

\* ------------------------------------------------------------------ bounds
\* processTranscript calls in one behaviour
MaxCalls == 1
\* register / unregister calls in one behaviour
MaxRegOps == 2
\* capture segments given to handleResult in one behaviour
MaxSegments == 2
\* SpeechRecognition instances the init effect makes in one behaviour
MaxInstances == 2
\* commands in the list given to findBestMatch when it is called on its own
MaxMatchCommands == 2

\* ----------------------------------------------------------------- strings
\* JavaScript null and undefined: sequences that are no string of characters
Null == <<"<null>">>
Undefined == <<"<undefined>">>

UpperToLower == [G |-> "g", O |-> "o", T |-> "t", A |-> "a", B |-> "b", N |-> "n"]

IsWhitespace(c) == c = " "

\* String.prototype.toLowerCase, character by character
LowerChar(c) == IF c \in DOMAIN UpperToLower THEN UpperToLower[c] ELSE c

ToLowerCase(s) == [i \in 1..Len(s) |-> LowerChar(s[i])]

SetMin(S) == CHOOSE x \in S : \A y \in S : x <= y

SetMax(S) == CHOOSE x \in S : \A y \in S : x >= y

\* String.prototype.trim
Trim(s) ==
    LET keep == {i \in 1..Len(s) : ~IsWhitespace(s[i])}
    IN  IF keep = {} THEN <<>> ELSE SubSeq(s, SetMin(keep), SetMax(keep))

\* String.prototype.includes
Includes(s, sub) ==
    \E i \in 0..(Len(s) - Len(sub)) : SubSeq(s, i + 1, i + Len(sub)) = sub

\* String.prototype.split(/\s+/): the pieces between maximal whitespace runs
RECURSIVE SplitWhitespace(_)
SplitWhitespace(s) ==
    LET ws == {i \in 1..Len(s) : IsWhitespace(s[i])}
    IN  IF ws = {} THEN <<s>>
        ELSE LET k == SetMin(ws)
                 after == {i \in (k + 1)..Len(s) : ~IsWhitespace(s[i])}
                 rest == IF after = {} THEN <<>>
                         ELSE SubSeq(s, SetMin(after), Len(s))
             IN  <<SubSeq(s, 1, k - 1)>> \o SplitWhitespace(rest)

\* ---------------------------------------------------------- input domains
Go == <<"g", "o">>

Tab == <<"t", "a", "b">>

Ids == {Go, Tab}

\* command behaviours; Throws(a) marks one that raises when it is invoked
Actions == {"act", "boom"}

\* (calling the undefined behaviour of an absent entry raises a TypeError)
Throws(a) == a \in {"boom", "undefined"}

\* the definitions owners register: two per identifier, two sharing a phrase,
\* one without a phrase, one with an empty phrase, two with a behaviour that throws
VoiceCommand ==
    { [id |-> Go, description |-> Go, phrase |-> <<"G", "o">>, action |-> "act"],
      [id |-> Go, description |-> Tab, phrase |-> Undefined, action |-> "boom"],
      [id |-> Tab, description |-> Tab, phrase |-> <<>>, action |-> "act"],
      [id |-> Tab, description |-> Go, phrase |-> <<"G", "o">>, action |-> "boom"] }

Transcripts == {<<" ">>, <<" ", "G", "o", " ">>, <<"g", "o", " ", "T", "a", "b">>}

\* dictationOptionsRef.current = null, as a record
NoOptions == [onInterim |-> FALSE, onFinal |-> FALSE, exitCommands |-> {}]

\* the DictationOptions given to startDictation: onFinal is required, onInterim
\* optional; exitCommands is a set, empty for an absent or empty array
DictationOptions ==
    { [onInterim |-> TRUE, onFinal |-> TRUE, exitCommands |-> {Go}],
      [onInterim |-> FALSE, onFinal |-> TRUE, exitCommands |-> {<<"G", "o">>}],
      [onInterim |-> FALSE, onFinal |-> TRUE, exitCommands |-> {}] }

\* what an adapter may resolve with: the id of a command (registered at that
\* moment or not), or null
AdapterResults == Ids \cup {Null}

\* ------------------------------------------------- the go_home scenario
\* "go_home"
GoHome == <<"g", "o", "_", "h", "o", "m", "e">>

\* "open_settings"
OpenSettings == <<"o", "p", "e", "n", "_", "s", "e", "t", "t", "i", "n", "g", "s">>

ScenarioIds == {GoHome, OpenSettings}

\* {id: "go_home", phrase: "go home", description: "Navigate to the home page"}
GoHomeCommand ==
    [id |-> GoHome,
     description |-> <<"N", "a", "v", "i", "g", "a", "t", "e", " ", "t", "o", " ", "t", "h", "e", " ", "h", "o", "m", "e", " ", "p", "a", "g", "e">>,
     phrase |-> <<"g", "o", " ", "h", "o", "m", "e">>,
     action |-> "act"]

\* {id: "open_settings", phrase: "settings", description: "Open the settings page"}
OpenSettingsCommand ==
    [id |-> OpenSettings,
     description |-> <<"O", "p", "e", "n", " ", "t", "h", "e", " ", "s", "e", "t", "t", "i", "n", "g", "s", " ", "p", "a", "g", "e">>,
     phrase |-> <<"s", "e", "t", "t", "i", "n", "g", "s">>,
     action |-> "act"]

ScenarioCommands == {GoHomeCommand, OpenSettingsCommand}

\* "open home navigation"
OpenHomeNavigation == <<"o", "p", "e", "n", " ", "h", "o", "m", "e", " ", "n", "a", "v", "i", "g", "a", "t", "i", "o", "n">>

\* "open home navigation", " go home ", "go_home now"
ScenarioTranscripts ==
    {OpenHomeNavigation,
     <<" ", "g", "o", " ", "h", "o", "m", "e", " ">>,
     <<"g", "o", "_", "h", "o", "m", "e", " ", "n", "o", "w">>}

VARIABLES
    commandsRef,            \* the registry Map, as its entries in insertion order
    isPausedRef,            \* isPausedRef.current
    isDictatingRef,         \* isDictatingRef.current
    dictationOptionsRef,    \* dictationOptionsRef.current (Null when unset)
    state,                  \* the VoiceControlState held by useState
    enableOfflineFallback,  \* the provider's prop
    calls,                  \* every processTranscript call: its progress and what it did
    lastResult,             \* the latest capture segment given to handleResult, and its outcome
    lastOp, lastDef,        \* per identifier: the latest registry operation and definition
    regOps,                 \* register / unregister calls so far
    segments,               \* capture segments given to handleResult so far
    \* useSpeechRecognition
    recognitionRef,         \* recognitionRef.current: the instance the init effect made last
    intendedState,          \* intendedState.current
    isListening,            \* the hook's isListening state
    error,                  \* the hook's error state
    recognition,            \* per SpeechRecognition instance: "none", "idle", "running", "ending"
    retryTimer,             \* per instance: the 100 ms retry timer of onend is pending
    speechOp,               \* the latest step of the capture loop and what it did
    \* useVoiceCommand
    owners,                 \* per owner: mounted, the command of its latest render,
                            \* commandRef.current, the id of its registered proxy
    hookCalls,              \* the registry calls the latest hook step made
    lastRun,                \* the latest invocation of a registry entry's behaviour
    \* the built-in adapters
    adapter,                \* the provider's adapter prop: "custom" or a built-in one
    fetched,                \* per processTranscript call: how the adapter's fetch settled
    \* findBestMatch on its own
    matchInput,             \* the arguments of the latest findBestMatch call
    matchResult             \* what that call returned

providerVars == <<commandsRef, isPausedRef, isDictatingRef, dictationOptionsRef, state,
                  enableOfflineFallback, calls, lastResult, lastOp, lastDef, regOps, segments>>

speechVars == <<recognitionRef, intendedState, isListening, error, recognition, retryTimer,
                speechOp>>

ownerVars == <<owners, hookCalls, lastRun>>

adapterVars == <<adapter, fetched>>

matcherVars == <<matchInput, matchResult>>

hookVars == <<speechVars, ownerVars, adapterVars, matcherVars>>

vars == <<providerVars, speechVars, ownerVars, adapterVars, matcherVars>>

routerVars == <<isPausedRef, isDictatingRef, dictationOptionsRef, enableOfflineFallback,
                calls, lastResult, segments>>

\* ---------------------------------------------------------------- registry
\* Map.prototype.has
MapHas(m, id) == \E i \in 1..Len(m) : m[i].id = id

\* the value Map.prototype.get gives for an absent key, as a record
NoCommand == [id |-> Undefined, description |-> Undefined, phrase |-> Undefined,
              action |-> "undefined"]

\* Map.prototype.get
MapGet(m, id) ==
    IF MapHas(m, id) THEN m[CHOOSE i \in 1..Len(m) : m[i].id = id] ELSE NoCommand

\* a Map.set that keeps the entry already stored under the key
MapSetKeepFirst(m, cmd) == IF MapHas(m, cmd.id) THEN m ELSE Append(m, cmd)

\* Map.prototype.set: replaces in place, or appends in insertion order
MapSet(m, cmd) ==
    IF MapHas(m, cmd.id)
    THEN [i \in 1..Len(m) |-> IF m[i].id = cmd.id THEN cmd ELSE m[i]]
    ELSE Append(m, cmd)

\* a delete that drops the oldest entry when the key is absent
MapDeleteOrOldest(m, id) ==
    IF \E i \in 1..Len(m) : m[i].id = id THEN SelectSeq(m, LAMBDA c : c.id # id)
    ELSE IF m = <<>> THEN m ELSE Tail(m)

\* Map.prototype.delete
MapDelete(m, id) == SelectSeq(m, LAMBDA c : c.id # id)

\* Array.from(commandsRef.current.values())
MapValues(m) == m

\* register(cmd)
Register(cmd) ==
    /\ regOps < MaxRegOps
    /\ commandsRef' = MapSet(commandsRef, cmd)
    /\ state' = [state EXCEPT !.activeCommands = MapValues(commandsRef')]
    /\ lastOp' = [lastOp EXCEPT ![cmd.id] = "register"]
    /\ lastDef' = [lastDef EXCEPT ![cmd.id] = cmd]
    /\ regOps' = regOps + 1
    /\ UNCHANGED routerVars
    /\ UNCHANGED hookVars

\* an unregister that leaves the published command list as it was
UnregisterSilent(id) ==
    /\ regOps < MaxRegOps
    /\ commandsRef' = MapDelete(commandsRef, id)
    /\ lastOp' = [lastOp EXCEPT ![id] = "unregister"]
    /\ lastDef' = [lastDef EXCEPT ![id] = NoCommand]
    /\ regOps' = regOps + 1
    /\ UNCHANGED state
    /\ UNCHANGED routerVars
    /\ UNCHANGED hookVars

\* unregister(id)
Unregister(id) ==
    /\ regOps < MaxRegOps
    /\ commandsRef' = MapDelete(commandsRef, id)
    /\ state' = [state EXCEPT !.activeCommands = MapValues(commandsRef')]
    /\ lastOp' = [lastOp EXCEPT ![id] = "unregister"]
    /\ lastDef' = [lastDef EXCEPT ![id] = NoCommand]
    /\ regOps' = regOps + 1
    /\ UNCHANGED routerVars
    /\ UNCHANGED hookVars

\* ------------------------------------------------------- local matcher
\* a score of 2 points for every transcript word found in the description
ScoreTwoPerWord(lowerTranscript, transcriptWords, cmd) ==
    LET desc == ToLowerCase(cmd.description)
        id == ToLowerCase(cmd.id)
    IN  (IF Includes(lowerTranscript, id) THEN 3 ELSE 0)
        + 2 * Cardinality({k \in 1..Len(transcriptWords) : Includes(desc, transcriptWords[k])})

\* one command's score in findBestMatch
Score(lowerTranscript, transcriptWords, cmd) ==
    LET desc == ToLowerCase(cmd.description)
        id == ToLowerCase(cmd.id)
    IN  (IF Includes(lowerTranscript, id) THEN 3 ELSE 0)
        + Cardinality({k \in 1..Len(transcriptWords) : Includes(desc, transcriptWords[k])})

\* the loop with score >= maxScore: the last of equal scores wins
RECURSIVE BestFromLastWins(_, _, _, _, _)
BestFromLastWins(lowerTranscript, transcriptWords, commands, i, best) ==
    IF i > Len(commands) THEN best[1]
    ELSE LET score == Score(lowerTranscript, transcriptWords, commands[i])
         IN  BestFromLastWins(lowerTranscript, transcriptWords, commands, i + 1,
                              IF score >= best[2] /\ score >= 2
                              THEN <<commands[i].id, score>> ELSE best)

\* the for loop of findBestMatch from command i on; best is <<bestMatchId, maxScore>>
RECURSIVE BestFrom(_, _, _, _, _)
BestFrom(lowerTranscript, transcriptWords, commands, i, best) ==
    IF i > Len(commands) THEN best[1]
    ELSE LET score == Score(lowerTranscript, transcriptWords, commands[i])
         IN  BestFrom(lowerTranscript, transcriptWords, commands, i + 1,
                      IF score > best[2] /\ score >= 2
                      THEN <<commands[i].id, score>> ELSE best)

\* findBestMatch without the filter on the length of the words
findBestMatchAllWords(transcript, commands) ==
    LET lowerTranscript == Trim(ToLowerCase(transcript))
        transcriptWords == SplitWhitespace(lowerTranscript)
    IN  BestFrom(lowerTranscript, transcriptWords, commands, 1, <<Null, 0>>)

findBestMatch(transcript, commands) ==
    LET lowerTranscript == Trim(ToLowerCase(transcript))
        transcriptWords == SelectSeq(SplitWhitespace(lowerTranscript), LAMBDA w : Len(w) > 2)
    IN  BestFrom(lowerTranscript, transcriptWords, commands, 1, <<Null, 0>>)

\* ------------------------------------------------------------------ router
\* JavaScript truthiness of a string | null | undefined
Truthy(s) == s # Null /\ s # Undefined /\ s # <<>>

\* c.phrase?.toLowerCase()
PhraseLower(c) == IF c.phrase = Undefined THEN Undefined ELSE ToLowerCase(c.phrase)

\* transcript.trim().toLowerCase()
CleanText(transcript) == ToLowerCase(Trim(transcript))

\* a pause gate that never closes
PauseGateOpen(paused) == FALSE

\* the pause gate: if (isPausedRef.current) return
PauseGate(paused) == paused

\* an exact match that compares the phrase as written, not lower-cased
ExactMatchCaseSensitive(allCommands, cleanText) ==
    LET hits == {i \in 1..Len(allCommands) : allCommands[i].phrase = cleanText}
    IN  IF hits = {} THEN 0 ELSE SetMin(hits)

\* a find that returns the last command with the phrase
ExactMatchLast(allCommands, cleanText) ==
    LET hits == {i \in 1..Len(allCommands) : PhraseLower(allCommands[i]) = cleanText}
    IN  IF hits = {} THEN 0 ELSE SetMax(hits)

\* allCommands.find(c => c.phrase?.toLowerCase() === cleanText): the index, 0 for none
ExactMatch(allCommands, cleanText) ==
    LET hits == {i \in 1..Len(allCommands) : PhraseLower(allCommands[i]) = cleanText}
    IN  IF hits = {} THEN 0 ELSE SetMin(hits)

\* a list for the adapter that passes the commands on as they are
CommandListWithActions(allCommands) == allCommands

\* allCommands.map(({id, description, phrase}) => ({id, description, phrase}))
CommandListForAI(allCommands) ==
    [i \in 1..Len(allCommands) |->
        [id |-> allCommands[i].id, description |-> allCommands[i].description,
         phrase |-> allCommands[i].phrase]]

Invocation(cmd, phase) == [id |-> cmd.id, action |-> cmd.action, phase |-> phase]

NewCall(transcript) ==
    [transcript |-> transcript, paused |-> isPausedRef, status |-> "returned",
     snapshot |-> <<>>, sent |-> <<>>, invoked |-> <<>>, adapter |-> "none",
     result |-> Null, fallback |-> FALSE]

\* the body of processTranscript(transcript) up to its await, run on the state
\* record st
RouteTranscript(st, transcript) ==
    LET cleanText == CleanText(transcript)
        allCommands == MapValues(commandsRef)
        exactMatch == ExactMatch(allCommands, cleanText)
        call == NewCall(transcript)
        st1 == [st EXCEPT !.isProcessing = TRUE, !.lastTranscript = cleanText]
    IN  IF PauseGate(isPausedRef) \/ ~Truthy(cleanText)
        THEN /\ state' = st
             /\ calls' = Append(calls, call)
        ELSE IF exactMatch # 0
        THEN LET cmd == allCommands[exactMatch]
                 ran == [call EXCEPT !.invoked = <<Invocation(cmd, "exact")>>]
             IN  IF Throws(cmd.action)
                 THEN /\ state' = st1
                      /\ calls' = Append(calls, [ran EXCEPT !.status = "threw"])
                 ELSE /\ state' = [st1 EXCEPT !.isProcessing = FALSE]
                      /\ calls' = Append(calls, [ran EXCEPT !.status = "done"])
        ELSE /\ state' = st1
             /\ calls' = Append(calls, [call EXCEPT !.status = "pending",
                                                    !.adapter = "pending",
                                                    !.snapshot = allCommands,
                                                    !.sent = <<cleanText, CommandListForAI(allCommands)>>])

\* a processTranscript that drops the transcript while another one is being routed
processTranscriptIfIdle(st, transcript) ==
    IF st.isProcessing
    THEN /\ state' = st
         /\ calls' = Append(calls, NewCall(transcript))
    ELSE RouteTranscript(st, transcript)

\* a processTranscript that gives up the adapter calls still pending when a new
\* transcript arrives
processTranscriptAborting(st, transcript) ==
    LET cleanText == CleanText(transcript)
        allCommands == MapValues(commandsRef)
        exactMatch == ExactMatch(allCommands, cleanText)
        call == NewCall(transcript)
        st1 == [st EXCEPT !.isProcessing = TRUE, !.lastTranscript = cleanText]
        kept == [k \in 1..Len(calls) |->
                    IF calls[k].status = "pending"
                    THEN [calls[k] EXCEPT !.status = "aborted", !.adapter = "aborted"]
                    ELSE calls[k]]
    IN  IF PauseGate(isPausedRef) \/ ~Truthy(cleanText)
        THEN /\ state' = st
             /\ calls' = Append(calls, call)
        ELSE IF exactMatch # 0
        THEN /\ state' = [st1 EXCEPT !.isProcessing = FALSE]
             /\ calls' = Append(kept, [call EXCEPT !.status = "done",
                               !.invoked = <<Invocation(allCommands[exactMatch], "exact")>>])
        ELSE /\ state' = st1
             /\ calls' = Append(kept, [call EXCEPT !.status = "pending",
                                                   !.adapter = "pending",
                                                   !.snapshot = allCommands,
                                                   !.sent = <<cleanText, CommandListForAI(allCommands)>>])

\* processTranscript(transcript): every call is routed at once
processTranscript(st, transcript) == RouteTranscript(st, transcript)

\* a catch block that passes the failure on to the caller
CatchRethrow(i, c) ==
    /\ state' = [state EXCEPT !.isProcessing = FALSE]
    /\ calls' = [calls EXCEPT ![i] = [c EXCEPT !.status = "threw"]]

\* the catch block and the finally block of processTranscript, for call i
CatchFinally(i, c) ==
    LET cleanText == CleanText(c.transcript)
        fallbackId == findBestMatch(cleanText, c.snapshot)
        cmd == MapGet(commandsRef, fallbackId)
        hit == enableOfflineFallback /\ Truthy(fallbackId) /\ cmd # NoCommand
        ran == [c EXCEPT !.fallback = enableOfflineFallback,
                         !.invoked = IF hit THEN Append(@, Invocation(cmd, "fallback")) ELSE @]
    IN  /\ state' = [state EXCEPT !.isProcessing = FALSE]
        /\ calls' = [calls EXCEPT ![i] =
                        [ran EXCEPT !.status = IF hit /\ Throws(cmd.action) THEN "threw" ELSE "done"]]

\* a hit test that leaves out the check of the looked-up entry
ResolvedHitUnchecked(commandId) == Truthy(commandId)

\* if (result.commandId) { const cmd = commandsRef.current.get(...); if (cmd) ...
ResolvedHit(commandId) == Truthy(commandId) /\ MapHas(commandsRef, commandId)

\* the adapter's promise for call i resolves with {commandId}
AdapterResolve(i, commandId) ==
    /\ i \in 1..Len(calls)
    /\ calls[i].status = "pending"
    /\ LET c == [calls[i] EXCEPT !.adapter = "resolved", !.result = commandId]
           cmd == MapGet(commandsRef, commandId)
           hit == ResolvedHit(commandId)
       IN  IF hit /\ Throws(cmd.action)
           THEN CatchFinally(i, [c EXCEPT !.invoked = Append(@, Invocation(cmd, "classifier"))])
           ELSE /\ state' = [state EXCEPT !.isProcessing = FALSE]
                /\ calls' = [calls EXCEPT ![i] =
                       [c EXCEPT !.status = "done",
                                 !.invoked = IF hit THEN Append(@, Invocation(cmd, "classifier"))
                                             ELSE @]]
    /\ UNCHANGED <<commandsRef, isPausedRef, isDictatingRef, dictationOptionsRef,
                   enableOfflineFallback, lastResult, lastOp, lastDef, regOps, segments>>
    /\ UNCHANGED hookVars

\* the adapter's promise for call i rejects
AdapterReject(i) ==
    /\ i \in 1..Len(calls)
    /\ calls[i].status = "pending"
    /\ CatchFinally(i, [calls[i] EXCEPT !.adapter = "rejected"])
    /\ UNCHANGED <<commandsRef, isPausedRef, isDictatingRef, dictationOptionsRef,
                   enableOfflineFallback, lastResult, lastOp, lastDef, regOps, segments>>
    /\ UNCHANGED hookVars

\* processTranscript(transcript) called through the context (submitted text)
ProcessTranscript(transcript) ==
    /\ Len(calls) < MaxCalls
    /\ processTranscript(state, transcript)
    /\ UNCHANGED <<commandsRef, isPausedRef, isDictatingRef, dictationOptionsRef,
                   enableOfflineFallback, lastResult, lastOp, lastDef, regOps, segments>>
    /\ UNCHANGED hookVars

\* setPaused(paused)
SetPaused(paused) ==
    /\ isPausedRef' = paused
    /\ state' = [state EXCEPT !.isPaused = paused]
    /\ UNCHANGED <<commandsRef, isDictatingRef, dictationOptionsRef, enableOfflineFallback,
                   calls, lastResult, lastOp, lastDef, regOps, segments>>
    /\ UNCHANGED hookVars

\* ---------------------------------------------------------------- dictation
\* startDictation(options)
StartDictation(options) ==
    /\ isDictatingRef' = TRUE
    /\ dictationOptionsRef' = options
    /\ state' = [state EXCEPT !.isDictating = TRUE]
    /\ UNCHANGED <<commandsRef, isPausedRef, enableOfflineFallback, calls, lastResult,
                   lastOp, lastDef, regOps, segments>>
    /\ UNCHANGED hookVars

\* stopDictation()
StopDictation ==
    /\ isDictatingRef' = FALSE
    /\ dictationOptionsRef' = NoOptions
    /\ state' = [state EXCEPT !.isDictating = FALSE]
    /\ UNCHANGED <<commandsRef, isPausedRef, enableOfflineFallback, calls, lastResult,
                   lastOp, lastDef, regOps, segments>>
    /\ UNCHANGED hookVars

\* a test of the dictating flag as captured when the handler was created
DictationActiveStale(dictating, options) == FALSE

\* isDictatingRef.current && dictationOptionsRef.current
DictationActive(dictating, options) == dictating /\ options # NoOptions

\* an exit test that never finds an exit phrase
ExitRequestedNever(options, transcript) == FALSE

\* options.exitCommands?.some(cmd => transcript.toLowerCase().includes(cmd))
ExitRequested(options, transcript) ==
    \E cmd \in options.exitCommands : Includes(ToLowerCase(transcript), cmd)

\* handleResult(transcript, isFinal), the capture loop's onResult
HandleResult(transcript, isFinal) ==
    /\ segments < MaxSegments
    /\ segments' = segments + 1
    /\ IF DictationActive(isDictatingRef, dictationOptionsRef)
       THEN IF isFinal /\ ExitRequested(dictationOptionsRef, transcript)
            THEN /\ isDictatingRef' = FALSE
                 /\ dictationOptionsRef' = NoOptions
                 /\ processTranscript([state EXCEPT !.isDictating = FALSE], transcript)
                 /\ lastResult' = [transcript |-> transcript, isFinal |-> isFinal,
                                   outcome |-> "exit"]
            ELSE /\ lastResult' = [transcript |-> transcript, isFinal |-> isFinal,
                                   outcome |-> IF isFinal THEN "onFinal"
                                               ELSE IF dictationOptionsRef.onInterim
                                               THEN "onInterim" ELSE "none"]
                 /\ UNCHANGED <<isDictatingRef, dictationOptionsRef, state, calls>>
       ELSE IF isFinal
            THEN /\ processTranscript(state, transcript)
                 /\ lastResult' = [transcript |-> transcript, isFinal |-> isFinal,
                                   outcome |-> "routed"]
                 /\ UNCHANGED <<isDictatingRef, dictationOptionsRef>>
            ELSE /\ lastResult' = [transcript |-> transcript, isFinal |-> isFinal,
                                   outcome |-> "none"]
                 /\ UNCHANGED <<isDictatingRef, dictationOptionsRef, state, calls>>
    /\ UNCHANGED <<commandsRef, isPausedRef, enableOfflineFallback, lastOp, lastDef, regOps>>
    /\ UNCHANGED hookVars

\* ------------------------------------------------- useSpeechRecognition
\* the hook's error state when it is null
NoError == "null"

\* the errors the speech primitive reports
SpeechError == {"no-speech", "not-allowed", "network", "aborted", "service-not-allowed"}

\* the SpeechRecognition instances the init effect can make
Instances == 1..MaxInstances

\* op: the step, inst: its instance, error: event.error, observed: the error given
\* to onError, started: a recognition.start() of the step succeeded, before: the
\* event.error of the step before, uncaught: the step ended with an exception
\* that no handler of the hook caught
NoSpeechOp == [op |-> "none", inst |-> 0, error |-> NoError, observed |-> NoError,
               started |-> FALSE, before |-> NoError, uncaught |-> FALSE]

SpeechOp(op, inst, err, observed, started) ==
    [op |-> op, inst |-> inst, error |-> err, observed |-> observed, started |-> started,
     before |-> speechOp.error, uncaught |-> FALSE]

\* SpeechRecognition.start() throws InvalidStateError unless the instance is idle
StartThrows(i) == recognition[i] # "idle"

\* a stop() that makes every instance wind down and fire end, idle or not
AfterStopAlways(rec, i) == [rec EXCEPT ![i] = "ending"]

\* SpeechRecognition.stop(): a running instance winds down and will fire end
AfterStop(rec, i) == IF rec[i] = "running" THEN [rec EXCEPT ![i] = "ending"] ELSE rec

\* start(): the hook's control method
SpeechStart ==
    /\ error' = NoError
    /\ intendedState' = TRUE
    /\ IF StartThrows(recognitionRef)
       THEN /\ UNCHANGED <<recognition, isListening>>
            /\ speechOp' = SpeechOp("start", recognitionRef, NoError, NoError, FALSE)
       ELSE /\ recognition' = [recognition EXCEPT ![recognitionRef] = "running"]
            /\ isListening' = TRUE
            /\ speechOp' = SpeechOp("start", recognitionRef, NoError, NoError, TRUE)
    /\ UNCHANGED <<recognitionRef, retryTimer>>
    /\ UNCHANGED <<providerVars, ownerVars, adapterVars, matcherVars>>

\* stop(): the hook's control method
SpeechStop ==
    /\ intendedState' = FALSE
    /\ recognition' = AfterStop(recognition, recognitionRef)
    /\ isListening' = FALSE
    /\ speechOp' = SpeechOp("stop", recognitionRef, NoError, NoError, FALSE)
    /\ UNCHANGED <<recognitionRef, error, retryTimer>>
    /\ UNCHANGED <<providerVars, ownerVars, adapterVars, matcherVars>>

\* recognition.onresult of instance i: each changed result goes to onResult
OnResult(i) ==
    /\ recognition[i] \in {"running", "ending"}
    /\ speechOp' = SpeechOp("result", i, NoError, NoError, FALSE)
    /\ UNCHANGED <<recognitionRef, intendedState, isListening, error, recognition, retryTimer>>
    /\ UNCHANGED <<providerVars, ownerVars, adapterVars, matcherVars>>

\* an onerror that ignores nothing
IgnorableNever(e) == FALSE

\* if (event.error === 'no-speech') return
Ignorable(e) == e = "no-speech"

\* an onerror that gives up on both access-denied codes
PermissionDeniedOrService(e) == e \in {"not-allowed", "service-not-allowed"}

\* an onerror that keeps trying after every error
PermissionDeniedNever(e) == FALSE

\* if (event.error === 'not-allowed'): permission denied, stop trying
PermissionDenied(e) == e = "not-allowed"

\* recognition.onerror of instance i with event.error = e; the primitive ends after it
OnError(i, e) ==
    /\ recognition[i] = "running"
    /\ recognition' = [recognition EXCEPT ![i] = "ending"]
    /\ IF Ignorable(e)
       THEN /\ UNCHANGED <<error, intendedState, isListening>>
            /\ speechOp' = SpeechOp("error", i, e, NoError, FALSE)
       ELSE /\ error' = e
            /\ speechOp' = SpeechOp("error", i, e, e, FALSE)
            /\ IF PermissionDenied(e)
               THEN /\ intendedState' = FALSE
                    /\ isListening' = FALSE
               ELSE UNCHANGED <<intendedState, isListening>>
    /\ UNCHANGED <<recognitionRef, retryTimer>>
    /\ UNCHANGED <<providerVars, ownerVars, adapterVars, matcherVars>>

\* recognition.onend of instance i; busy: recognition.start() throws in the handler
OnEnd(i, busy) ==
    /\ recognition[i] \in {"running", "ending"}
    /\ IF intendedState
       THEN IF busy
            THEN /\ recognition' = [recognition EXCEPT ![i] = "idle"]
                 /\ retryTimer' = [retryTimer EXCEPT ![i] = TRUE]
                 /\ speechOp' = SpeechOp("end", i, NoError, NoError, FALSE)
                 /\ UNCHANGED isListening
            ELSE /\ recognition' = [recognition EXCEPT ![i] = "running"]
                 /\ speechOp' = SpeechOp("end", i, NoError, NoError, TRUE)
                 /\ UNCHANGED <<retryTimer, isListening>>
       ELSE /\ recognition' = [recognition EXCEPT ![i] = "idle"]
            /\ isListening' = FALSE
            /\ speechOp' = SpeechOp("end", i, NoError, NoError, FALSE)
            /\ UNCHANGED retryTimer
    /\ UNCHANGED <<recognitionRef, intendedState, error>>
    /\ UNCHANGED <<providerVars, ownerVars, adapterVars, matcherVars>>

\* a retry timer that gives up: its callback does not start the primitive
OnRetryTimerGivesUp(i) ==
    /\ retryTimer[i]
    /\ retryTimer' = [retryTimer EXCEPT ![i] = FALSE]
    /\ speechOp' = SpeechOp("timer", i, NoError, NoError, FALSE)
    /\ UNCHANGED <<recognitionRef, intendedState, isListening, error, recognition>>
    /\ UNCHANGED <<providerVars, ownerVars, adapterVars, matcherVars>>

\* a retry timer whose callback starts the primitive without looking at the flag
OnRetryTimerUnguarded(i) ==
    /\ retryTimer[i]
    /\ retryTimer' = [retryTimer EXCEPT ![i] = FALSE]
    /\ IF ~StartThrows(i)
       THEN /\ recognition' = [recognition EXCEPT ![i] = "running"]
            /\ speechOp' = SpeechOp("timer", i, NoError, NoError, TRUE)
       ELSE /\ UNCHANGED recognition
            /\ speechOp' = SpeechOp("timer", i, NoError, NoError, FALSE)
    /\ UNCHANGED <<recognitionRef, intendedState, isListening, error>>
    /\ UNCHANGED <<providerVars, ownerVars, adapterVars, matcherVars>>

\* the setTimeout callback of onend: if (intendedState.current) recognition.start()
OnRetryTimer(i) ==
    /\ retryTimer[i]
    /\ retryTimer' = [retryTimer EXCEPT ![i] = FALSE]
    /\ IF intendedState /\ ~StartThrows(i)
       THEN /\ recognition' = [recognition EXCEPT ![i] = "running"]
            /\ speechOp' = SpeechOp("timer", i, NoError, NoError, TRUE)
       ELSE /\ UNCHANGED recognition
            /\ speechOp' = [SpeechOp("timer", i, NoError, NoError, FALSE)
                               EXCEPT !.uncaught = intendedState]
    /\ UNCHANGED <<recognitionRef, intendedState, isListening, error>>
    /\ UNCHANGED <<providerVars, ownerVars, adapterVars, matcherVars>>

\* the init effect runs again (onResult or onError changed): the cleanup of the
\* previous run, then a new instance with new handlers
Reinit ==
    /\ recognitionRef < MaxInstances
    /\ intendedState' = FALSE
    /\ recognition' = [AfterStop(recognition, recognitionRef) EXCEPT ![recognitionRef + 1] = "idle"]
    /\ recognitionRef' = recognitionRef + 1
    /\ speechOp' = SpeechOp("reinit", recognitionRef + 1, NoError, NoError, FALSE)
    /\ UNCHANGED <<isListening, error, retryTimer>>
    /\ UNCHANGED <<providerVars, ownerVars, adapterVars, matcherVars>>

\* ------------------------------------------------------ useVoiceCommand
\* the owners (components) that call useVoiceCommand
Owners == {"A", "B"}

\* the behaviours an owner supplies from one render to the next
OwnerActions == {"v1", "v2"}

\* the command an owner passes to the hook; description and phrase stay as given
OwnerCommand(id, action) ==
    [id |-> id, description |-> id, phrase |-> Undefined, action |-> action]

NoOwnerCommand == OwnerCommand(Undefined, "none")

\* an owner that is not mounted; command: the argument of the latest render,
\* commandRef: commandRef.current, captured: the command the registration effect
\* closed over when it last ran, registered: the ids registered since the latest mount
Unmounted ==
    [mounted |-> FALSE, command |-> NoOwnerCommand, commandRef |-> NoOwnerCommand,
     captured |-> NoOwnerCommand, registered |-> {}]

NoRun == [id |-> Undefined, owner |-> "none", action |-> "none"]

\* proxyCommand of owner o: its action is the closure that calls through commandRef
ProxyCommand(o, command) ==
    [id |-> command.id, description |-> command.description, phrase |-> command.phrase,
     action |-> o]

\* a proxy that runs the action it was registered with
ProxyTargetCaptured(o) == owners[o].captured.action

\* action: () => commandRef.current.action()
ProxyTarget(o) == owners[o].commandRef.action

\* the identifier a cleanup removes, were it kept in a ref set at the first render
CleanupIdFirst(o) ==
    IF owners[o].registered = {owners[o].captured.id} THEN owners[o].captured.id
    ELSE CHOOSE id \in owners[o].registered : id # owners[o].captured.id

\* return () => unregister(proxyCommand.id)
CleanupId(o) == owners[o].captured.id

\* an effect whose dependencies hold the whole command
EffectDepsChangedAny(o, command) == command # owners[o].command

\* the dependencies [register, unregister, command.id] of the registration effect
EffectDepsChanged(o, command) == command.id # owners[o].command.id

\* the owner mounts: both effects run
Mount(o, id, action) ==
    LET command == OwnerCommand(id, action)
    IN  /\ ~owners[o].mounted
        /\ owners' = [owners EXCEPT ![o] =
                        [mounted |-> TRUE, command |-> command, commandRef |-> command,
                         captured |-> command, registered |-> {id}]]
        /\ commandsRef' = MapSet(commandsRef, ProxyCommand(o, command))
        /\ state' = [state EXCEPT !.activeCommands = MapValues(commandsRef')]
        /\ hookCalls' = <<[op |-> "register", id |-> id]>>
        /\ UNCHANGED <<isPausedRef, isDictatingRef, dictationOptionsRef, enableOfflineFallback,
                       calls, lastResult, lastOp, lastDef, regOps, segments>>
        /\ UNCHANGED <<speechVars, adapterVars, matcherVars, lastRun>>

\* the owner renders again with a new command: commandRef is refreshed, and the
\* registration effect runs again (cleanup, then register) when its dependencies changed
Update(o, id, action) ==
    LET command == OwnerCommand(id, action)
    IN  /\ owners[o].mounted
        /\ IF EffectDepsChanged(o, command)
           THEN /\ owners' = [owners EXCEPT ![o].command = command,
                                            ![o].commandRef = command,
                                            ![o].captured = command,
                                            ![o].registered = @ \cup {id}]
                /\ commandsRef' = MapSet(MapDelete(commandsRef, CleanupId(o)),
                                         ProxyCommand(o, command))
                /\ hookCalls' = <<[op |-> "unregister", id |-> CleanupId(o)],
                                  [op |-> "register", id |-> id]>>
           ELSE /\ owners' = [owners EXCEPT ![o].command = command,
                                            ![o].commandRef = command]
                /\ UNCHANGED commandsRef
                /\ hookCalls' = <<>>
        /\ state' = [state EXCEPT !.activeCommands = MapValues(commandsRef')]
        /\ UNCHANGED <<isPausedRef, isDictatingRef, dictationOptionsRef, enableOfflineFallback,
                       calls, lastResult, lastOp, lastDef, regOps, segments>>
        /\ UNCHANGED <<speechVars, adapterVars, matcherVars, lastRun>>

\* the owner unmounts: the cleanup of the registration effect runs
Unmount(o) ==
    /\ owners[o].mounted
    /\ owners' = [owners EXCEPT ![o] = [Unmounted EXCEPT !.registered = owners[o].registered]]
    /\ commandsRef' = MapDelete(commandsRef, CleanupId(o))
    /\ state' = [state EXCEPT !.activeCommands = MapValues(commandsRef')]
    /\ hookCalls' = <<[op |-> "unregister", id |-> CleanupId(o)]>>
    /\ UNCHANGED <<isPausedRef, isDictatingRef, dictationOptionsRef, enableOfflineFallback,
                   calls, lastResult, lastOp, lastDef, regOps, segments>>
    /\ UNCHANGED <<speechVars, adapterVars, matcherVars, lastRun>>

\* the router invokes the behaviour of the entry registered under id
Invoke(id) ==
    /\ MapHas(commandsRef, id)
    /\ lastRun' = [id |-> id, owner |-> MapGet(commandsRef, id).action,
                   action |-> ProxyTarget(MapGet(commandsRef, id).action)]
    /\ UNCHANGED <<providerVars, speechVars, adapterVars, matcherVars, owners, hookCalls>>

\* ------------------------------------------------------ built-in adapters
\* createOpenAIAdapter, createGeminiAdapter, createClaudeAdapter
BuiltInAdapters == {"openai", "gemini", "claude"}

\* the adapter's fetch has not settled
NotFetched == [status |-> "pending", commandId |-> Null]

\* how the provider's HTTP call can end: fetch rejects, the response is not OK,
\* or it is OK and its text parses to {commandId}
FetchOutcomes ==
    {[status |-> "network-error", commandId |-> Null],
     [status |-> "non-ok", commandId |-> Null]}
    \cup {[status |-> "ok", commandId |-> id] : id \in AdapterResults}

HttpFailed(outcome) == outcome.status \in {"network-error", "non-ok"}

\* whether the adapter's promise rejects: the OpenAI adapter awaits fetch outside
\* any try and throws on !response.ok; the Gemini and Claude adapters catch
\* both and return {commandId: null}
AdapterRejects(kind, outcome) == kind = "openai" /\ HttpFailed(outcome)

\* the commandId a built-in adapter resolves with
AdapterCommandId(kind, outcome) ==
    IF HttpFailed(outcome) THEN Null ELSE outcome.commandId

\* the provider is rendered with a built-in adapter as its adapter prop
SetAdapter(kind) ==
    /\ \A i \in 1..Len(calls) : calls[i].status # "pending"
    /\ adapter' = kind
    /\ UNCHANGED <<providerVars, speechVars, ownerVars, matcherVars, fetched>>

\* the fetch of a built-in adapter settles for call i
FetchSettles(i, outcome) ==
    /\ adapter \in BuiltInAdapters
    /\ i \in 1..Len(calls)
    /\ calls[i].status = "pending"
    /\ fetched[i] = NotFetched
    /\ fetched' = [fetched EXCEPT ![i] = outcome]
    /\ UNCHANGED <<providerVars, speechVars, ownerVars, matcherVars, adapter>>

\* the built-in adapter finishes after its fetch: its promise rejects or resolves,
\* and processTranscript goes on after its await
AdapterSettles(i) ==
    /\ adapter \in BuiltInAdapters
    /\ i \in 1..Len(calls)
    /\ fetched[i] # NotFetched
    /\ IF AdapterRejects(adapter, fetched[i])
       THEN AdapterReject(i)
       ELSE AdapterResolve(i, AdapterCommandId(adapter, fetched[i]))

\* -------------------------------------------------- findBestMatch alone
NoMatchInput == [transcript |-> Undefined, commands |-> <<>>]

\* "go Tab", "tab tab", " tab", "go", ""
MatchTranscripts ==
    {<<"g", "o", " ", "T", "a", "b">>,
     <<"t", "a", "b", " ", "t", "a", "b">>,
     <<" ", "t", "a", "b">>,
     <<"g", "o">>,
     <<>>}

\* the command lists of up to MaxMatchCommands commands
MatchCommandLists ==
    UNION {[1..n -> VoiceCommand] : n \in 0..MaxMatchCommands}

\* findBestMatch(transcript, commands) is called
Match(transcript, commands) ==
    /\ matchInput' = [transcript |-> transcript, commands |-> commands]
    /\ matchResult' = findBestMatch(transcript, commands)
    /\ UNCHANGED <<providerVars, speechVars, ownerVars, adapterVars>>

\* ------------------------------------------------------------- behaviours
Init ==
    /\ commandsRef = <<>>
    /\ isPausedRef = FALSE
    /\ isDictatingRef = FALSE
    /\ dictationOptionsRef = NoOptions
    /\ state = [isListening |-> FALSE, isProcessing |-> FALSE, lastTranscript |-> Null,
                activeCommands |-> <<>>, isPaused |-> FALSE, error |-> Null,
                isDictating |-> FALSE]
    /\ enableOfflineFallback \in BOOLEAN
    /\ calls = <<>>
    /\ lastResult = [transcript |-> Null, isFinal |-> FALSE, outcome |-> "none"]
    /\ lastOp = [id \in Ids \cup ScenarioIds |-> "none"]
    /\ lastDef = [id \in Ids \cup ScenarioIds |-> NoCommand]
    /\ regOps = 0
    /\ segments = 0
    /\ recognitionRef = 1
    /\ intendedState = FALSE
    /\ isListening = FALSE
    /\ error = NoError
    /\ recognition = [i \in Instances |-> IF i = 1 THEN "idle" ELSE "none"]
    /\ retryTimer = [i \in Instances |-> FALSE]
    /\ speechOp = NoSpeechOp
    /\ owners = [o \in Owners |-> Unmounted]
    /\ hookCalls = <<>>
    /\ lastRun = NoRun
    /\ adapter = "custom"
    /\ fetched = [i \in 1..MaxCalls |-> NotFetched]
    /\ matchInput = NoMatchInput
    /\ matchResult = Undefined

Next ==
    \/ \E cmd \in VoiceCommand : Register(cmd)
    \/ \E id \in Ids : Unregister(id)
    \/ \E t \in Transcripts : ProcessTranscript(t)
    \/ \E i \in 1..MaxCalls, r \in AdapterResults : AdapterResolve(i, r)
    \/ \E i \in 1..MaxCalls : AdapterReject(i)
    \/ \E p \in BOOLEAN : SetPaused(p)

\* the registry and the router, with transcripts submitted through the context
Spec == Init /\ [][Next]_vars

\* the same provider fed by the capture loop: transcripts arrive through
\* handleResult, in routing mode or in dictation mode
NextCapture ==
    \/ \E cmd \in VoiceCommand : Register(cmd)
    \/ \E id \in Ids : Unregister(id)
    \/ \E t \in Transcripts, f \in BOOLEAN : HandleResult(t, f)
    \/ \E i \in 1..MaxSegments, r \in AdapterResults : AdapterResolve(i, r)
    \/ \E i \in 1..MaxSegments : AdapterReject(i)
    \/ \E p \in BOOLEAN : SetPaused(p)
    \/ \E o \in DictationOptions : StartDictation(o)
    \/ StopDictation

SpecCapture == Init /\ [][NextCapture]_vars

\* final transcripts arriving from the capture loop while adapter calls are pending
NextArrivals ==
    \/ \E cmd \in VoiceCommand : Register(cmd)
    \/ \E id \in Ids : Unregister(id)
    \/ \E t \in Transcripts : HandleResult(t, TRUE)
    \/ \E i \in 1..MaxSegments, r \in AdapterResults : AdapterResolve(i, r)
    \/ \E i \in 1..MaxSegments : AdapterReject(i)

\* every adapter call that was issued settles in the end, and the event loop then
\* runs the continuation of its processTranscript. A call that has settled in
\* any way is never pending again, so weak fairness of one way of settling
\* (resolving with no command) leaves out exactly the behaviours in which a call
\* stays pending for ever
SpecArrivalsFair ==
    Init /\ [][NextArrivals]_vars
         /\ \A i \in 1..MaxSegments : WF_vars(AdapterResolve(i, Null))

\* the provider with the commands and the transcripts of the go_home scenario
NextScenario ==
    \/ \E cmd \in ScenarioCommands : Register(cmd)
    \/ \E id \in ScenarioIds : Unregister(id)
    \/ \E t \in ScenarioTranscripts : ProcessTranscript(t)
    \/ \E i \in 1..MaxCalls, r \in ScenarioIds \cup {Null} : AdapterResolve(i, r)
    \/ \E i \in 1..MaxCalls : AdapterReject(i)
    \/ \E p \in BOOLEAN : SetPaused(p)

SpecScenario == Init /\ [][NextScenario]_vars

\* the provider with one of the built-in adapters and its HTTP call
NextAdapters ==
    \/ \E cmd \in VoiceCommand : Register(cmd)
    \/ \E id \in Ids : Unregister(id)
    \/ \E t \in Transcripts : ProcessTranscript(t)
    \/ \E kind \in BuiltInAdapters : SetAdapter(kind)
    \/ \E i \in 1..MaxCalls, outcome \in FetchOutcomes : FetchSettles(i, outcome)
    \/ \E i \in 1..MaxCalls : AdapterSettles(i)

SpecAdapters == Init /\ [][NextAdapters]_vars

\* findBestMatch called on its own
NextMatcher ==
    \E t \in MatchTranscripts, commands \in MatchCommandLists : Match(t, commands)

SpecMatcher == Init /\ [][NextMatcher]_vars

\* the capture loop of useSpeechRecognition with its speech primitive
NextSpeech ==
    \/ SpeechStart
    \/ SpeechStop
    \/ \E i \in Instances : OnResult(i)
    \/ \E i \in Instances, e \in SpeechError : OnError(i, e)
    \/ \E i \in Instances, busy \in BOOLEAN : OnEnd(i, busy)
    \/ \E i \in Instances : OnRetryTimer(i)
    \/ Reinit

SpecSpeech == Init /\ [][NextSpeech]_vars

\* the capture loop with its timers: a retry timer that onend has set fires after
\* its 100 ms, nothing in the hook clears it
SpecSpeechFair ==
    Init /\ [][NextSpeech]_vars /\ \A i \in Instances : WF_vars(OnRetryTimer(i))

\* owners of useVoiceCommand mounting, rendering again and unmounting over the registry
NextOwners ==
    \/ \E o \in Owners, id \in Ids, a \in OwnerActions : Mount(o, id, a)
    \/ \E o \in Owners, id \in Ids, a \in OwnerActions : Update(o, id, a)
    \/ \E o \in Owners : Unmount(o)
    \/ \E id \in Ids : Invoke(id)

SpecOwners == Init /\ [][NextOwners]_vars

\* ------------------------------------------------------------------ claims
\* the call that the step appended, and whether the step made a call
NewestCall == calls'[Len(calls')]

CallMade == Len(calls') = Len(calls) + 1

\* the step settled the adapter call of call i
Settled(i, how) ==
    /\ i \in 1..Len(calls)
    /\ calls[i].status = "pending"
    /\ calls'[i].adapter = how

\* C1: the registry holds exactly the identifiers whose latest operation was
\* register, once each, each with the definition of its latest register call
C1_LastWriterWins ==
    \A id \in Ids :
        /\ MapHas(commandsRef, id) <=> lastOp[id] = "register"
        /\ Cardinality({i \in 1..Len(commandsRef) : commandsRef[i].id = id}) <= 1
        /\ MapHas(commandsRef, id) => MapGet(commandsRef, id) = lastDef[id]

\* two operations on one identifier, the later one a register
C1_Witness ==
    /\ regOps = 2
    /\ Len(commandsRef) = 1
    /\ \A id \in Ids : lastOp[id] = "none" \/ MapHas(commandsRef, id)

\* some registered command's lower-cased phrase equals the normalised transcript
PhraseRegistered(transcript) ==
    \E k \in 1..Len(commandsRef) : PhraseLower(commandsRef[k]) = CleanText(transcript)

\* C2 as written: a transcript whose normalisation equals a registered phrase
\* invokes a command in the exact-match phase and makes no adapter call
C2_Original ==
    [][(CallMade /\ PhraseRegistered(NewestCall.transcript))
        => /\ Len(NewestCall.invoked) = 1
           /\ NewestCall.invoked[1].phase = "exact"
           /\ NewestCall.adapter = "none"]_vars

\* C2 amended: such a transcript never reaches the adapter; unless the router is
\* paused or the normalised transcript is empty, it invokes exactly one command,
\* in the exact-match phase, and the call is over within the same step
C2_ExactShortCircuit ==
    [][(CallMade /\ PhraseRegistered(NewestCall.transcript))
        => /\ NewestCall.adapter = "none"
           /\ NewestCall.status # "pending"
           /\ (~isPausedRef /\ CleanText(NewestCall.transcript) # <<>>)
                => /\ Len(NewestCall.invoked) = 1
                   /\ NewestCall.invoked[1].phase = "exact"
                   /\ \E k \in 1..Len(commandsRef) :
                        /\ PhraseLower(commandsRef[k]) = CleanText(NewestCall.transcript)
                        /\ NewestCall.invoked[1].id = commandsRef[k].id]_vars

\* a transcript written in another case and with surrounding blanks matched exactly
C2_Witness ==
    \E i \in 1..Len(calls) :
        /\ Len(calls[i].invoked) = 1
        /\ calls[i].invoked[1].phase = "exact"
        /\ calls[i].transcript # CleanText(calls[i].transcript)

\* C3: a transcript passed to processTranscript while paused invokes no command
\* and makes no adapter call, whatever the registry holds
C3_PausedDropsTranscript ==
    \A i \in 1..Len(calls) :
        calls[i].paused => /\ calls[i].invoked = <<>>
                           /\ calls[i].adapter = "none"
                           /\ calls[i].status = "returned"

\* a paused call whose transcript equals a registered phrase
C3_Witness ==
    \E i \in 1..Len(calls) :
        /\ calls[i].paused
        /\ PhraseRegistered(calls[i].transcript)
        /\ CleanText(calls[i].transcript) # <<>>

\* the score findBestMatch gives command k of a call's snapshot
SnapshotScore(c, k) ==
    LET lowerTranscript == CleanText(c.transcript)
    IN  Score(lowerTranscript,
              SelectSeq(SplitWhitespace(lowerTranscript), LAMBDA w : Len(w) > 2),
              c.snapshot[k])

\* command k of the snapshot is still registered as it was, its identifier occurs
\* in the transcript and it scores at least 2
NamedByTranscript(c, k) ==
    /\ MapGet(commandsRef, c.snapshot[k].id) = c.snapshot[k]
    /\ Includes(CleanText(c.transcript), ToLowerCase(c.snapshot[k].id))
    /\ SnapshotScore(c, k) >= 2

\* C5 as written: on rejection with the fallback enabled every command the
\* transcript names with a score of 2 or more is invoked; with the fallback
\* disabled nothing is
C5_Original ==
    [][\A i \in 1..Len(calls) :
        Settled(i, "rejected")
        => IF enableOfflineFallback
           THEN \A k \in 1..Len(calls[i].snapshot) :
                    NamedByTranscript(calls[i], k)
                    => \E n \in 1..Len(calls'[i].invoked) :
                           calls'[i].invoked[n].id = calls[i].snapshot[k].id
           ELSE calls'[i].invoked = <<>>]_vars

\* command k has the highest score of the snapshot and is the first to have it
FirstBest(c, k) ==
    \A j \in 1..Len(c.snapshot) :
        \/ SnapshotScore(c, j) < SnapshotScore(c, k)
        \/ SnapshotScore(c, j) = SnapshotScore(c, k) /\ j >= k

\* C5 amended: on rejection with the fallback enabled, when the transcript names
\* a snapshot command with a score of 2 or more, exactly the first best-scoring
\* command of the snapshot is invoked, through the entry registered under its
\* identifier at that moment, and nothing is invoked when that identifier is no
\* longer registered; with the fallback disabled nothing is invoked
C5_FallbackInvokesBest ==
    [][\A i \in 1..Len(calls) :
        Settled(i, "rejected")
        => IF enableOfflineFallback
           THEN (\E k \in 1..Len(calls[i].snapshot) : NamedByTranscript(calls[i], k))
                => \A b \in 1..Len(calls[i].snapshot) :
                     FirstBest(calls[i], b)
                     => calls'[i].invoked =
                          IF MapHas(commandsRef, calls[i].snapshot[b].id)
                          THEN <<Invocation(MapGet(commandsRef, calls[i].snapshot[b].id),
                                            "fallback")>>
                          ELSE <<>>
           ELSE calls'[i].invoked = <<>>]_vars

\* a rejected call over a snapshot of two commands that the fallback resolved
C5_Witness ==
    \E i \in 1..Len(calls) :
        /\ calls[i].adapter = "rejected"
        /\ Len(calls[i].snapshot) = 2
        /\ Len(calls[i].invoked) = 1
        /\ calls[i].invoked[1].phase = "fallback"

\* C6: when the adapter resolves with no identifier, or with one that is not in
\* the registry, no command is invoked, the fallback matcher does not run and
\* the call completes normally
C6_NoMatchIsNotAFault ==
    [][\A i \in 1..Len(calls) :
        (Settled(i, "resolved") /\ ~(/\ Truthy(calls'[i].result)
                                     /\ MapHas(commandsRef, calls'[i].result)))
        => /\ calls'[i].invoked = <<>>
           /\ ~calls'[i].fallback
           /\ calls'[i].status = "done"]_vars

\* the adapter named a command that was no longer registered, with the fallback on
C6_Witness ==
    \E i \in 1..Len(calls) :
        /\ calls[i].adapter = "resolved"
        /\ calls[i].result # Null
        /\ calls[i].invoked = <<>>
        /\ calls[i].snapshot # <<>>
        /\ enableOfflineFallback

\* C7: a routed transcript invokes at most one command behaviour over all phases
C7_AtMostOneInvocation ==
    \A i \in 1..Len(calls) : Len(calls[i].invoked) <= 1

\* C8 as written: two routing decisions are never in progress at the same time
C8_Original ==
    Cardinality({i \in 1..Len(calls) : calls[i].status = "pending"}) <= 1

\* C8 amended: a final transcript that reaches the router is routed at once, in
\* arrival order, also while earlier adapter calls are pending: unless paused or
\* empty it is matched in that step (an exact match invokes its command then,
\* otherwise its own adapter call is issued), and the earlier decisions stay as
\* they were, so several decisions can be in progress together
C8_RoutedOnArrival ==
    [][CallMade
        => /\ \A i \in 1..Len(calls) : calls'[i] = calls[i]
           /\ (~isPausedRef /\ CleanText(NewestCall.transcript) # <<>>)
                => IF PhraseRegistered(NewestCall.transcript)
                   THEN Len(NewestCall.invoked) = 1
                   ELSE NewestCall.status = "pending"]_vars

\* a second transcript ran its command while the first one's adapter call was pending
C8_Witness ==
    /\ Len(calls) = 2
    /\ calls[1].status = "pending"
    /\ Len(calls[2].invoked) = 1

\* C9: a transcript given to processTranscript while paused is recorded as the
\* last transcript of the observable state
C9_PausedTranscriptRecorded ==
    [][(CallMade /\ isPausedRef)
        => state'.lastTranscript \in {NewestCall.transcript,
                                      CleanText(NewestCall.transcript)}]_vars

\* the step gave handleResult a final segment while dictation was active
DictatingFinal ==
    /\ segments' = segments + 1
    /\ isDictatingRef
    /\ dictationOptionsRef # NoOptions
    /\ lastResult'.isFinal

\* some exit phrase occurs in the transcript, both lower-cased
ExitPhraseInside(options, transcript) ==
    \E cmd \in options.exitCommands :
        Includes(ToLowerCase(transcript), ToLowerCase(cmd))

\* C4: while dictating, a final segment that matches no exit phrase is not
\* passed to processTranscript and runs no command
C4_DictationKeepsFinals ==
    [][(DictatingFinal /\ ~ExitPhraseInside(dictationOptionsRef, lastResult'.transcript))
        => /\ calls' = calls
           /\ lastResult'.outcome = "onFinal"
           /\ isDictatingRef']_vars

\* a dictated final segment that equals a registered phrase went to onFinal
C4_Witness ==
    /\ lastResult.outcome = "onFinal"
    /\ isDictatingRef
    /\ PhraseRegistered(lastResult.transcript)
    /\ CleanText(lastResult.transcript) # <<>>
    /\ calls = <<>>

\* C10: while dictating, a final segment that contains an exit phrase, compared
\* case-insensitively, ends dictation and is passed to the router
C10_ExitPhraseAnyCase ==
    [][(DictatingFinal /\ ExitPhraseInside(dictationOptionsRef, lastResult'.transcript))
        => /\ ~isDictatingRef'
           /\ CallMade
           /\ NewestCall.transcript = lastResult'.transcript]_vars

\* the step gave handleResult a segment while dictation was active
DictatingSegment ==
    /\ segments' = segments + 1
    /\ isDictatingRef
    /\ dictationOptionsRef # NoOptions

\* C11: while dictating, an interim segment goes to onInterim when one is set, a
\* final segment that matches no exit phrase goes once to onFinal, and a final
\* segment that matches an exit phrase does not go to onFinal
C11_DictationDelivery ==
    [][DictatingSegment
        => IF ~lastResult'.isFinal
           THEN dictationOptionsRef.onInterim => lastResult'.outcome = "onInterim"
           ELSE IF ExitPhraseInside(dictationOptionsRef, lastResult'.transcript)
           THEN lastResult'.outcome # "onFinal"
           ELSE lastResult'.outcome = "onFinal"]_vars

\* C12: a 'no-speech' error records no error, calls no observer and leaves the
\* capture-intended flag and isListening alone; when an instance ends while
\* capture is intended, the end handler starts it again at once or, when that
\* start throws, arms the retry timer, which starts it if capture is still intended
C12_NoSpeechRestarts ==
    [][/\ (speechOp'.op = "error" /\ speechOp'.error = "no-speech")
            => /\ error' = error
               /\ speechOp'.observed = NoError
               /\ intendedState' = intendedState
               /\ isListening' = isListening
       /\ (speechOp'.op = "end" /\ intendedState)
            => /\ recognition'[speechOp'.inst] = "running" \/ retryTimer'[speechOp'.inst]
               /\ intendedState'
               /\ error' = error
       /\ (speechOp'.op = "timer" /\ intendedState)
            => recognition'[speechOp'.inst] # "idle"]_vars

\* an instance ended right after a 'no-speech' error and was started again
C12_Witness ==
    /\ speechOp.op = "end"
    /\ speechOp.before = "no-speech"
    /\ speechOp.started
    /\ error = NoError
    /\ recognition[speechOp.inst] = "running"

\* C13: a 'not-allowed' error is recorded and given to the observer, and clears
\* the capture-intended flag and isListening; while the flag is clear neither an
\* end event nor the retry timer starts an instance, and only start() sets the flag
C13_NotAllowedStopsLoop ==
    [][/\ (speechOp'.op = "error" /\ speechOp'.error = "not-allowed")
            => /\ error' = "not-allowed"
               /\ speechOp'.observed = "not-allowed"
               /\ ~intendedState'
               /\ ~isListening'
       /\ (speechOp'.op \in {"end", "timer"} /\ ~intendedState)
            => /\ ~speechOp'.started
               /\ \A i \in Instances :
                    recognition'[i] = "running" => recognition[i] = "running"
       /\ (~intendedState /\ intendedState') => speechOp'.op = "start"]_vars

\* an instance ended right after a 'not-allowed' error and stayed idle
C13_Witness ==
    /\ speechOp.op = "end"
    /\ speechOp.before = "not-allowed"
    /\ ~speechOp.started
    /\ error = "not-allowed"
    /\ ~intendedState
    /\ recognition[speechOp.inst] = "idle"

\* C14 as written: start() while capture is intended and stop() while it is not
\* change neither the flag, nor isListening, nor the recorded error, nor the primitives
C14_Original ==
    [][((speechOp'.op = "start" /\ intendedState) \/ (speechOp'.op = "stop" /\ ~intendedState))
        => /\ intendedState' = intendedState
           /\ isListening' = isListening
           /\ error' = error
           /\ recognition' = recognition]_vars

\* C14 amended: start() while capture is intended and the current instance is
\* running leaves the flag, isListening and every primitive as they were and
\* clears the recorded error; stop() while capture is not intended and the
\* current instance is not running leaves the flag, the recorded error and every
\* primitive as they were and leaves isListening false
C14_RepeatedStartStop ==
    [][/\ (speechOp'.op = "start" /\ intendedState /\ recognition[recognitionRef] = "running")
            => /\ intendedState' = intendedState
               /\ isListening' = isListening
               /\ recognition' = recognition
               /\ retryTimer' = retryTimer
               /\ error' = NoError
       /\ (speechOp'.op = "stop" /\ ~intendedState /\ recognition[recognitionRef] # "running")
            => /\ intendedState' = intendedState
               /\ error' = error
               /\ recognition' = recognition
               /\ retryTimer' = retryTimer
               /\ ~isListening']_vars

\* start() was called while the current instance was running: the call threw inside
C14_Witness ==
    /\ speechOp.op = "start"
    /\ ~speechOp.started
    /\ intendedState
    /\ isListening
    /\ recognition[recognitionRef] = "running"

\* C15: over any sequence of start, stop, error, end, timer and re-initialisation
\* steps at most one SpeechRecognition instance is running
C15_OneInstanceRunning ==
    Cardinality({i \in Instances : recognition[i] = "running"}) <= 1

\* the step is a render of a mounted owner that changes nothing but the behaviour
BehaviourOnlyUpdate(o) ==
    /\ owners[o].mounted /\ owners'[o].mounted
    /\ owners'[o].command.id = owners[o].command.id
    /\ owners'[o].command.action # owners[o].command.action

\* C16: the hook calls register only at mount and at a change of the identifier
\* (then after unregistering the old one): a render that changes only the
\* behaviour makes no registry call and leaves the registry as it was
C16_BehaviourUpdateWritesNothing ==
    [][\A o \in Owners :
        /\ BehaviourOnlyUpdate(o) => (hookCalls' = <<>> /\ commandsRef' = commandsRef)
        /\ (owners' # owners /\ \E k \in 1..Len(hookCalls') : hookCalls'[k].op = "register")
              => \E p \in Owners :
                    \/ ~owners[p].mounted /\ owners'[p].mounted
                    \/ /\ owners[p].mounted /\ owners'[p].mounted
                       /\ owners'[p].command.id # owners[p].command.id]_vars

\* a mounted owner whose behaviour was replaced after its proxy was registered
C16_Witness ==
    \E o \in Owners :
        /\ owners[o].mounted
        /\ hookCalls = <<>>
        /\ owners[o].command.action # owners[o].captured.action
        /\ MapHas(commandsRef, owners[o].command.id)

\* C17: invoking the behaviour of a registry entry made by the hook runs the
\* action its owner supplied in its latest render, and that owner is mounted
C17_ProxyRunsLatestAction ==
    [][lastRun' # lastRun
        => /\ lastRun'.owner \in Owners
           /\ owners[lastRun'.owner].mounted
           /\ lastRun'.action = owners[lastRun'.owner].command.action
           /\ lastRun'.id = owners[lastRun'.owner].captured.id]_vars

\* an entry was invoked after its owner had replaced the behaviour it registered with
C17_Witness ==
    /\ lastRun.owner \in Owners
    /\ owners[lastRun.owner].mounted
    /\ lastRun.action = owners[lastRun.owner].command.action
    /\ lastRun.action # owners[lastRun.owner].captured.action
    /\ lastRun.id = owners[lastRun.owner].captured.id

\* no other mounted owner has registered id since it mounted
NoOtherOwnerUses(o, id) ==
    \A p \in Owners \ {o} : ~(owners[p].mounted /\ id \in owners[p].registered)

\* C18: when an owner unmounts, the registry holds none of the identifiers the
\* owner registered since its mount that no other owner uses, also after the
\* owner changed its identifier
C18_UnmountRemovesAll ==
    [][\A o \in Owners :
        (owners[o].mounted /\ ~owners'[o].mounted)
        => \A id \in owners[o].registered :
              NoOtherOwnerUses(o, id) => ~MapHas(commandsRef', id)]_vars

\* an owner that had changed its identifier has unmounted and left nothing behind
C18_Witness ==
    /\ Len(hookCalls) = 1
    /\ hookCalls[1].op = "unregister"
    /\ \E o \in Owners :
          /\ ~owners[o].mounted
          /\ Cardinality(owners[o].registered) = 2
          /\ hookCalls[1].id \in owners[o].registered
          /\ \A id \in owners[o].registered : ~MapHas(commandsRef, id)
          /\ \A p \in Owners \ {o} : owners[p].registered = {}

\* C19: the registry holds an entry under the current identifier of every
\* mounted owner, whatever other owners mount and unmount, same identifier or not
C19_MountedOwnerRegistered ==
    \A o \in Owners : owners[o].mounted => MapHas(commandsRef, owners[o].command.id)

\* C20: every adapter call receives the trimmed, lower-cased transcript and one
\* record per command of the routing snapshot (the registry at the time of the
\* call), in snapshot order, each with identifier, description and phrase only
C20_AdapterInput ==
    [][(CallMade /\ NewestCall.adapter # "none")
        => /\ NewestCall.snapshot = MapValues(commandsRef)
           /\ NewestCall.sent[1] = ToLowerCase(Trim(NewestCall.transcript))
           /\ Len(NewestCall.sent[2]) = Len(NewestCall.snapshot)
           /\ \A k \in 1..Len(NewestCall.snapshot) :
                /\ DOMAIN NewestCall.sent[2][k] = {"id", "description", "phrase"}
                /\ NewestCall.sent[2][k].id = NewestCall.snapshot[k].id
                /\ NewestCall.sent[2][k].description = NewestCall.snapshot[k].description
                /\ NewestCall.sent[2][k].phrase = NewestCall.snapshot[k].phrase]_vars

\* an adapter call over two commands, one without a phrase, for a transcript that
\* had to be normalised
C20_Witness ==
    \E i \in 1..Len(calls) :
        /\ calls[i].adapter # "none"
        /\ Len(calls[i].sent[2]) = 2
        /\ \E k \in 1..2 : calls[i].sent[2][k].phrase = Undefined
        /\ calls[i].sent[1] # calls[i].transcript

\* C21: processTranscript rejects only when a command behaviour it invoked threw:
\* a rejected adapter call or a transcript that matches nothing ends the call
\* normally, with the fallback enabled or disabled
C21_RoutingNeverThrows ==
    \A i \in 1..Len(calls) :
        /\ calls[i].status = "threw"
              => /\ calls[i].invoked # <<>>
                 /\ Throws(calls[i].invoked[Len(calls[i].invoked)].action)
        /\ (calls[i].adapter \in {"rejected", "resolved"} /\ calls[i].invoked = <<>>)
              => calls[i].status = "done"

\* the adapter rejected, the fallback was off, and the call ended normally
C21_Witness ==
    \E i \in 1..Len(calls) :
        /\ calls[i].adapter = "rejected"
        /\ ~calls[i].fallback
        /\ calls[i].snapshot # <<>>
        /\ calls[i].invoked = <<>>
        /\ calls[i].status = "done"

\* the adapter call of call i is rejected in this step, with the fallback enabled,
\* for "open home navigation" and a registry that holds go_home only
GoHomeScenario(i) ==
    /\ Settled(i, "rejected")
    /\ enableOfflineFallback
    /\ calls[i].transcript = OpenHomeNavigation
    /\ calls[i].snapshot = <<GoHomeCommand>>
    /\ commandsRef = <<GoHomeCommand>>

\* C22 as written: in the scenario go_home scores 2 or more and is invoked
C22_Original ==
    [][\A i \in 1..Len(calls) :
        GoHomeScenario(i)
        => /\ SnapshotScore(calls[i], 1) >= 2
           /\ calls'[i].invoked = <<Invocation(GoHomeCommand, "fallback")>>]_vars

\* C22 amended: in the scenario go_home scores 1 ("home" is the only transcript
\* word found in the description, the identifier is not in the transcript), the
\* matcher returns none, nothing is invoked and the call ends normally
C22_ScenarioScoresOne ==
    [][\A i \in 1..Len(calls) :
        GoHomeScenario(i)
        => /\ SnapshotScore(calls[i], 1) = 1
           /\ findBestMatch(CleanText(calls[i].transcript), calls[i].snapshot) = Null
           /\ calls'[i].invoked = <<>>
           /\ calls'[i].fallback
           /\ calls'[i].status = "done"]_vars

\* the scenario has run: rejected, fallback tried, go_home still the only command
C22_Witness ==
    \E i \in 1..Len(calls) :
        /\ calls[i].adapter = "rejected"
        /\ calls[i].fallback
        /\ calls[i].transcript = OpenHomeNavigation
        /\ calls[i].snapshot = <<GoHomeCommand>>
        /\ commandsRef = <<GoHomeCommand>>

\* C23: with the fallback enabled and a built-in adapter, when the provider's
\* HTTP call has failed the routing decision runs the local fallback matcher, and
\* a command the matcher finds is invoked
C23_HttpFailureRunsFallback ==
    [][\A i \in 1..Len(calls) :
        (/\ calls[i].status = "pending"
         /\ calls'[i].status # "pending"
         /\ adapter \in BuiltInAdapters
         /\ HttpFailed(fetched[i])
         /\ enableOfflineFallback)
        => /\ calls'[i].fallback
           /\ (\E k \in 1..Len(calls[i].snapshot) : NamedByTranscript(calls[i], k))
                => calls'[i].invoked # <<>>]_vars

\* C24: unregister of an identifier that is not in the registry (never registered,
\* or unregistered before), and a second register with the definition already
\* stored, leave the registry and the published command list as they were
C24_RegistryIdempotent ==
    [][regOps' = regOps + 1
        => /\ \A id \in Ids :
                (lastOp[id] = "none" /\ lastOp'[id] = "unregister")
                => /\ ~MapHas(commandsRef, id)
                   /\ commandsRef' = commandsRef
                   /\ state'.activeCommands = state.activeCommands
           /\ (lastOp' = lastOp /\ lastDef' = lastDef)
                => /\ commandsRef' = commandsRef
                   /\ state'.activeCommands = state.activeCommands
                   /\ \A id \in Ids :
                        Cardinality({k \in 1..Len(commandsRef') : commandsRef'[k].id = id}) <= 1]_vars

\* unregister was called for an identifier while another one was registered
C24_Witness ==
    /\ regOps = 2
    /\ Len(commandsRef) = 1
    /\ \E id \in Ids : lastOp[id] = "unregister" /\ ~MapHas(commandsRef, id)

\* the score the rule gives command k of the list: 3 if the lower-cased transcript
\* contains the lower-cased identifier, plus 1 for every transcript word longer
\* than 2 characters that occurs in the lower-cased description
RuleScore(input, k) ==
    LET text == Trim(ToLowerCase(input.transcript))
        words == SplitWhitespace(text)
        cmd == input.commands[k]
    IN  (IF Includes(text, ToLowerCase(cmd.id)) THEN 3 ELSE 0)
        + Cardinality({w \in 1..Len(words) :
                         Len(words[w]) > 2 /\ Includes(ToLowerCase(cmd.description), words[w])})

\* C25: findBestMatch returns none when no command scores 2 or more, and
\* otherwise the identifier of the first command in list order that has the
\* highest score
C25_BestMatchRule ==
    matchInput # NoMatchInput
    => LET n == Len(matchInput.commands)
           eligible == {k \in 1..n : RuleScore(matchInput, k) >= 2}
       IN  IF eligible = {}
           THEN matchResult = Null
           ELSE \E k \in eligible :
                   /\ \A j \in 1..n : RuleScore(matchInput, j) <= RuleScore(matchInput, k)
                   /\ \A j \in 1..(k - 1) : RuleScore(matchInput, j) < RuleScore(matchInput, k)
                   /\ matchResult = matchInput.commands[k].id

\* two commands with different identifiers tie, and the first one is returned;
\* and a command reaches 2 by a repeated word alone
C25_Witness ==
    /\ Len(matchInput.commands) = 2
    /\ matchInput.commands[1].id # matchInput.commands[2].id
    /\ RuleScore(matchInput, 1) = RuleScore(matchInput, 2)
    /\ RuleScore(matchInput, 1) >= 2
    /\ matchResult = matchInput.commands[1].id

\* C26: whenever an adapter call is pending, the isProcessing flag of the state is
\* true, also after another routing decision has concluded
C26_PendingImpliesProcessing ==
    (\E i \in 1..Len(calls) : calls[i].status = "pending") => state.isProcessing

\* the step concludes the routing decision of call i: the call is made and ends
\* in the same step, or its pending adapter call settles
Concludes(i) ==
    /\ i \in 1..Len(calls')
    /\ calls'[i].status \in {"done", "threw"}
    /\ \/ i = Len(calls) + 1 /\ calls'[i].invoked # <<>>
       \/ i <= Len(calls) /\ calls[i].status = "pending"

\* C27: a step that concludes a routing decision leaves isProcessing false, in
\* whichever phase the decision ended and also when the invoked behaviour threw
C27_ConcludedClearsProcessing ==
    [][\A i \in 1..MaxSegments : Concludes(i) => ~state'.isProcessing]_vars

\* the routing decision of call i has run to its end
Completed(i) == i <= Len(calls) /\ calls[i].status \in {"done", "threw"}

\* C28: every routing decision whose adapter call is pending runs to its end,
\* whatever transcripts arrive in the meantime, when every adapter call settles
C28_EveryDecisionCompletes ==
    \A i \in 1..MaxSegments :
        (i <= Len(calls) /\ calls[i].status = "pending") ~> Completed(i)

\* two decisions went to the adapter and both completed, each invoking its own
\* command; the command of the first one was registered only after the second
\* transcript had arrived, so the first call was still pending then
C28_Witness ==
    /\ Len(calls) = 2
    /\ Len(commandsRef) = 2
    /\ regOps = 2
    /\ \A i \in 1..2 :
          /\ calls[i].status = "done"
          /\ calls[i].adapter = "resolved"
          /\ Len(calls[i].invoked) = 1
          /\ calls[i].invoked[1].id = calls[i].result
    /\ calls[1].result # calls[2].result
    /\ \A k \in 1..Len(calls[2].snapshot) : calls[2].snapshot[k].id # calls[1].result

\* C29: after an end event of an instance that finds the capture-intended flag
\* true, the instance runs again, at once or through the retry timer, unless the
\* flag is cleared in the meantime
C29_EndLeadsToRunning ==
    \A i \in Instances :
        (speechOp.op = "end" /\ speechOp.inst = i /\ intendedState)
            ~> (recognition[i] = "running" \/ ~intendedState)

\* the retry timer restarted the instance whose restart in onend had thrown
C29_Witness ==
    /\ speechOp.op = "timer"
    /\ speechOp.started
    /\ intendedState
    /\ recognition[speechOp.inst] = "running"

\* C30: stop leaves the capture-intended flag false, only start sets it again,
\* and a retry timer that fires while the flag is false does not start the
\* primitive
C30_StoppedTimerNeverStarts ==
    [][/\ speechOp'.op = "stop" => ~intendedState'
       /\ (~intendedState /\ intendedState') => speechOp'.op = "start"
       /\ \A i \in Instances :
            (retryTimer[i] /\ ~retryTimer'[i] /\ ~intendedState)
            => /\ recognition' = recognition
               /\ ~speechOp'.started]_vars

\* the timer of the only instance fired after a stop (no denial, no new
\* instance) and left the instance idle
C30_Witness ==
    /\ speechOp.op = "timer"
    /\ ~speechOp.started
    /\ ~intendedState
    /\ recognitionRef = 1
    /\ error = NoError
    /\ recognition[1] = "idle"

\* C31: no step of the capture loop ends with an exception that leaves the loop
C31_NothingEscapesTheLoop == ~speechOp.uncaught

\* C32: an error other than 'no-speech' is recorded and given to the observer;
\* 'not-allowed' clears the capture-intended flag and every other code leaves it
\* as it was, so that the end event after such an error under a true flag starts
\* the instance again or arms the retry timer
C32_OnlyNotAllowedStopsLoop ==
    [][/\ (speechOp'.op = "error" /\ speechOp'.error # "no-speech")
            => /\ error' = speechOp'.error
               /\ speechOp'.observed = speechOp'.error
               /\ IF speechOp'.error = "not-allowed"
                  THEN ~intendedState'
                  ELSE intendedState' = intendedState
       /\ (/\ speechOp.op = "error"
           /\ speechOp.error \notin {"no-speech", "not-allowed"}
           /\ speechOp'.op = "end"
           /\ speechOp'.inst = speechOp.inst
           /\ intendedState)
            => \/ recognition'[speechOp'.inst] = "running"
               \/ retryTimer'[speechOp'.inst]]_vars

\* an instance ended right after a 'service-not-allowed' error, which was
\* recorded, and was started again
C32_Witness ==
    /\ speechOp.op = "end"
    /\ speechOp.before = "service-not-allowed"
    /\ speechOp.started
    /\ error = "service-not-allowed"
    /\ intendedState
    /\ recognition[speechOp.inst] = "running"

\* the step gave handleResult, while paused and dictating, a final segment whose
\* lower-cased text contains one of the exit phrases
PausedExitSegment ==
    /\ DictatingFinal
    /\ isPausedRef
    /\ \E cmd \in dictationOptionsRef.exitCommands :
           Includes(ToLowerCase(lastResult'.transcript), cmd)

PhraseHits(text) ==
    {k \in 1..Len(commandsRef) :
        commandsRef[k].phrase # Undefined /\ ToLowerCase(commandsRef[k].phrase) = text}

\* C34: a transcript routed while unpaused whose normalized text is the phrase of
\* one or more registered commands invokes the first of them in insertion order,
\* in the exact-match phase, and nothing else
C34_FirstPhraseWins ==
    [][(/\ CallMade
        /\ ~isPausedRef
        /\ Truthy(CleanText(NewestCall.transcript))
        /\ PhraseHits(CleanText(NewestCall.transcript)) # {})
        => LET first == SetMin(PhraseHits(CleanText(NewestCall.transcript)))
           IN  /\ NewestCall.invoked = <<Invocation(commandsRef[first], "exact")>>
               /\ NewestCall.adapter = "none"]_vars

\* two registered commands share the phrase of the transcript, and the call
\* invoked the one registered first
C34_Witness ==
    /\ Len(commandsRef) = 2
    /\ calls # <<>>
    /\ Cardinality(PhraseHits(CleanText(calls[1].transcript))) = 2
    /\ Len(calls[1].invoked) = 1
    /\ calls[1].invoked[1].id = commandsRef[1].id
    /\ calls[1].invoked[1].phase = "exact"
    /\ calls[1].snapshot = <<>>
    /\ regOps = 2

\* C35: after a register or unregister call the activeCommands of the state is
\* the list of the registry's values, entry by entry in the registry's order
C35_ActiveCommandsFollowRegistry ==
    [][regOps' = regOps + 1
        => /\ Len(state'.activeCommands) = Len(commandsRef')
           /\ \A k \in 1..Len(commandsRef') : state'.activeCommands[k] = commandsRef'[k]]_vars

\* a command was registered, invoked, and unregistered: the list is empty again
C35_Witness ==
    /\ regOps = 2
    /\ state.activeCommands = <<>>
    /\ calls # <<>>
    /\ Len(calls[1].invoked) = 1
    /\ lastOp[calls[1].invoked[1].id] = "unregister"

\* C36: whenever capture is intended and the current instance of the primitive is
\* running, isListening is true
C36_ListeningWhileCapturing ==
    (intendedState /\ recognition[recognitionRef] = "running") => isListening
====
